---- MODULE Spec2Model ----
(***************************************************************************)
(* A model of scapefs: the block-store reader (src/src/filesystem.rs) and  *)
(* the reference-table decoder (src/src/reference_table.rs).               *)
(*                                                                         *)
(* Files are byte sequences (1-based here, 0-based in the source).  Every  *)
(* call of the library is one action; it records the call, its return      *)
(* value, the blocks it read and where it left the file cursors.  SpecLoop *)
(* takes read_entry one loop iteration at a time.                          *)
(***************************************************************************)
EXTENDS Integers, Sequences, FiniteSets, TLC

VARIABLES
    mainfile,   \* MainFile.file: [exists, bytes] (Option<File> and its content)
    indexfile,  \* one IndexFile: [id, bytes]
    mpos,       \* seek cursor of the data file handle
    ipos,       \* seek cursor of the index file handle
    call,       \* the last call made: [op, ...arguments]
    ret,        \* what that call returned: [kind, ...]
    reads,      \* block numbers the last call passed to read_block, in order
    loop,       \* the locals of a read_entry that is inside its while loop
    stream,     \* the bytes handed to ReferenceTable::decode
    source,     \* the table the host serialised into the stream (never read by the code)
    spos,       \* cursor of the stream
    table       \* the ReferenceTable the last successful decode returned

fsvars == <<mainfile, indexfile, mpos, ipos, reads, loop>>
rtvars == <<stream, source, spos, table>>

vars == <<mainfile, indexfile, mpos, ipos, call, ret, reads, loop, stream, source, spos, table>>

----------------------------------------------------------------------------
(* Bounds of the model and constants of the program *)

MaxBlocks == 3        \* whole 520-byte blocks in a generated data file
MaxRecords == 2       \* whole 6-byte records in a generated index file
MaxFolders == 2       \* folders in a generated reference table
MaxFiles == 2         \* files per folder in a generated reference table

BlockSize == 520      \* bytes per block
RecordSize == 6       \* bytes per index record
SmallLimit == 65535   \* entry ids above this use the 10-byte block header

Min(a, b) == IF a < b THEN a ELSE b

----------------------------------------------------------------------------
(* Return values *)

None == [kind |-> "none"]
Some(v) == [kind |-> "some", val |-> v]
Ok(v) == [kind |-> "ok", val |-> v]
Err(e) == [kind |-> "err", err |-> e]
Panic(m) == [kind |-> "panic", msg |-> m]

----------------------------------------------------------------------------
(* File handles.  Every handle has a seek cursor that a read starts from  *)
(* and advances; the calls below place it with seek before they read.      *)

\* a seek relative to where the handle stands (what the calls do not do)
SeekFrom_Current(cursor, offset) == cursor + offset

\* file.seek(SeekFrom::Start(offset)) on a handle whose cursor stands at
\* `cursor`: the new cursor, which is absolute
SeekFrom_Start(cursor, offset) == offset

\* A file and the cursor its handle stands at
IndexFile_at(f, pos) == [id |-> f.id, bytes |-> f.bytes, pos |-> pos]
MainFile_at(mf, pos) == [exists |-> mf.exists, bytes |-> mf.bytes, pos |-> pos]

----------------------------------------------------------------------------
(* A read at cursor pos, placed there by the seek before it, into a        *)
(* zero-initialised buffer of n bytes.  A read at or past the end of the   *)
(* file reads 0 bytes and is not an error; the rest of the buffer keeps    *)
(* its zeros.                                                              *)

ReadAt(bytes, pos, n) ==
    LET avail == IF pos >= Len(bytes) THEN 0 ELSE Min(n, Len(bytes) - pos)
    IN [buf |-> SubSeq(bytes, pos + 1, pos + avail) \o [i \in 1..(n - avail) |-> 0],
        count |-> avail,
        pos |-> pos + avail]

U16(b0, b1) == b0 * 256 + b1
U24(b0, b1, b2) == b0 * 65536 + b1 * 256 + b2
\* A u32 value v below 2^31 is held as v, and one from 2^31 up as v - 2^32
\* (the same 32 bits), because TLC's integers end at 2^31 - 1.
U32(b0, b1, b2, b3) ==
    (IF b0 < 128 THEN b0 ELSE b0 - 256) * 16777216 + b1 * 65536 + b2 * 256 + b3
\* v as usize <= n, for a u32 v held as above and 0 <= n < 2^31
U32AtMost(v, n) == v >= 0 /\ v <= n

----------------------------------------------------------------------------
(* IndexFile *)

IndexFile_last_entry(f) == Len(f.bytes) \div RecordSize

IndexFile_entry_noshort(f, id) ==
    LET seek_offset == id * 6
        r == ReadAt(f.bytes, SeekFrom_Start(f.pos, seek_offset), 6)
        tmp == r.buf
    IN [ret |-> Some([index |-> f.id % 256, id |-> id,
                      size |-> U24(tmp[1], tmp[2], tmp[3]),
                      offset |-> U24(tmp[4], tmp[5], tmp[6]) * 520]),
        pos |-> r.pos]

IndexFile_entry(f, id) ==
    LET seek_offset == id * 6
        r == ReadAt(f.bytes, SeekFrom_Start(f.pos, seek_offset), 6)
        tmp == r.buf
    IN IF r.count # 6
       THEN [ret |-> None, pos |-> r.pos]
       ELSE [ret |-> Some([index |-> f.id % 256, id |-> id,
                           size |-> U24(tmp[1], tmp[2], tmp[3]),
                           offset |-> U24(tmp[4], tmp[5], tmp[6]) * 520]),
             pos |-> r.pos]

IndexEntry_block(e) == e.offset \div 520

----------------------------------------------------------------------------
(* EntryHeader, CompressionType, BlockHeader *)

CompressionType_from_code(code) ==
    CASE code = 1 -> "Bzip2"
      [] code = 2 -> "Gzip"
      [] code = 3 -> "Lzma"
      [] OTHER -> "None"

EntryHeader_from_bytes(bytes) ==
    [raw_size |-> U32(bytes[2], bytes[3], bytes[4], bytes[5]),
     real_size |-> U32(bytes[6], bytes[7], bytes[8], bytes[9]),
     compression |-> CompressionType_from_code(bytes[1])]

BlockHeader_from_block(big, data) ==
    IF big
    THEN [big |-> TRUE,
          entry_id |-> U32(data[1], data[2], data[3], data[4]),
          next_seq |-> U16(data[5], data[6]),
          next_block |-> U24(data[7], data[8], data[9]),
          index_id |-> data[10]]
    ELSE [big |-> FALSE,
          entry_id |-> U16(data[1], data[2]),
          next_seq |-> U16(data[3], data[4]),
          next_block |-> U24(data[5], data[6], data[7]),
          index_id |-> data[8]]

----------------------------------------------------------------------------
(* MainFile *)

MainFile_read_block(mf, block) ==
    IF ~mf.exists
    THEN [ret |-> None, pos |-> 0, moved |-> FALSE]
    ELSE LET r == ReadAt(mf.bytes, SeekFrom_Start(mf.pos, block * 520), 520)
         IN [ret |-> Some(r.buf), pos |-> r.pos, moved |-> TRUE]

BlockHeaderLen(e) == IF e.id > SmallLimit THEN 10 ELSE 8

MainFile_read_header(mf, e) ==
    IF ~mf.exists
    THEN [ret |-> None, pos |-> 0, moved |-> FALSE]
    ELSE LET r == ReadAt(mf.bytes, SeekFrom_Start(mf.pos, e.offset + BlockHeaderLen(e)), 9)
         IN [ret |-> Some(EntryHeader_from_bytes(r.buf)), pos |-> r.pos, moved |-> TRUE]

ConsumableWhole(remaining, available_data) == available_data

ConsumableNothing(remaining, available_data) == 0

Consumable(remaining, available_data) ==
    IF remaining > available_data THEN available_data ELSE remaining

\* The block read after `current_block` with header `block_info`.
NextBlock(current_block, block_info) == current_block + 1

\* The linkage check made on a block that is not the last one of the entry.
LinkageBroken(block_info, e, current_seq) ==
    block_info.index_id # e.index \/ block_info.next_seq # current_seq

\* The while loop of read_entry; rd is the list of blocks read so far and
\* pos the cursor the last read_block left.
RECURSIVE read_entry_loop(_, _, _, _, _, _, _, _)
read_entry_loop(mf, e, current_block, remaining, current_seq, data, rd, pos) ==
    IF ~(remaining > 0)
    THEN [ret |-> Ok(data), reads |-> rd, pos |-> pos]
    ELSE LET blk == MainFile_read_block(mf, current_block)
             block_data == blk.ret.val
             block_info == BlockHeader_from_block(e.id > 65535, block_data)
             header_size == IF block_info.big THEN 10 ELSE 8
             available_data == 520 - header_size
             consumable == Consumable(remaining, available_data)
             data2 == data \o SubSeq(block_data, header_size + 1, header_size + consumable)
             remaining2 == remaining - consumable
             rd2 == Append(rd, current_block)
         IN IF remaining2 > 0 /\ LinkageBroken(block_info, e, current_seq)
            THEN [ret |-> Err("MalformedDataSequence"), reads |-> rd2, pos |-> blk.pos]
            ELSE read_entry_loop(MainFile_at(mf, blk.pos), e,
                                 NextBlock(current_block, block_info), remaining2,
                                 current_seq + 1, data2, rd2, blk.pos)

MainFile_read_entry(mf, e, pos0) ==
    IF ~mf.exists
    THEN [ret |-> Err("NoFileHandle"), reads |-> <<>>, pos |-> pos0]
    ELSE read_entry_loop(mf, e, IndexEntry_block(e), e.size, 0, <<>>, <<>>, pos0)

\* What the gzip / bzip2 decoder (an external collaborator) hands back when
\* read_exact asks it for real_size bytes.  With real_size = 0 read_exact
\* succeeds without touching the decoder; with nothing to feed the decoder
\* (the cursor is at or past the end of data) it cannot succeed; otherwise
\* the outcome is the decoder's, decoder_ok.
DecoderReadExact(codec, data, skip, real_size, decoder_ok) ==
    IF real_size = 0 THEN Ok(<<>>)
    ELSE IF Len(data) <= skip \/ ~decoder_ok THEN Err("CorruptedData")
    ELSE Ok([decoded |-> codec, len |-> real_size])

MainFile_read_decompressed(mf, e, pos0, decoder_ok) ==
    LET r == MainFile_read_entry(mf, e, pos0)
    IN IF r.ret.kind = "err"
       THEN r
       ELSE LET data == r.ret.val
                h == MainFile_read_header(MainFile_at(mf, r.pos), e)
                header == h.ret.val
                res == CASE header.compression = "None" ->
                              \* raw_size + 5 overflows u32 or exceeds data.len(): the slice panics
                              IF U32AtMost(header.raw_size, Len(data) - 5)
                              THEN Ok(SubSeq(data, 6, header.raw_size + 5))
                              ELSE Panic("slice index out of range")
                         [] header.compression = "Gzip" ->
                              DecoderReadExact("Gzip", data, 9, header.real_size, decoder_ok)
                         [] header.compression = "Lzma" ->
                              Panic("Lzma compression unsupported")
                         [] header.compression = "Bzip2" ->
                              IF Len(data) < 9
                              THEN Panic("index out of bounds")
                              ELSE DecoderReadExact("Bzip2", data, 5, header.real_size, decoder_ok)
            IN [ret |-> res, reads |-> r.reads, pos |-> h.pos]

----------------------------------------------------------------------------
(* ReferenceTable: the readers of the stream.  Each returns [ok, val, pos]; *)
(* a read that runs out of bytes is the io::Error that `?` returns.         *)

ReadExact(s, pos, n) ==
    IF pos + n <= Len(s)
    THEN [ok |-> TRUE, val |-> SubSeq(s, pos + 1, pos + n), pos |-> pos + n]
    ELSE [ok |-> FALSE, val |-> <<>>, pos |-> Len(s)]

\* read_u8, read_u16::<BigEndian>, read_i32::<BigEndian>, read_u32::<BigEndian>
\* (a u32 is held as the i32 of the same bits, see U32) and read_vari32
ReadVal(s, pos, kind) ==
    CASE kind = "u8" ->
            LET r == ReadExact(s, pos, 1)
            IN [ok |-> r.ok, val |-> IF r.ok THEN r.val[1] ELSE 0, pos |-> r.pos]
      [] kind = "u16" ->
            LET r == ReadExact(s, pos, 2)
            IN [ok |-> r.ok, val |-> IF r.ok THEN U16(r.val[1], r.val[2]) ELSE 0, pos |-> r.pos]
      [] kind \in {"i32", "u32"} ->
            LET r == ReadExact(s, pos, 4)
            IN [ok |-> r.ok,
                val |-> IF r.ok THEN U32(r.val[1], r.val[2], r.val[3], r.val[4]) ELSE 0,
                pos |-> r.pos]
      [] kind = "vari32" ->
            LET first == ReadExact(s, pos, 1)
            IN IF ~first.ok THEN [ok |-> FALSE, val |-> 0, pos |-> first.pos]
               ELSE IF first.val[1] >= 128    \* read_i8 is negative
               THEN LET r == ReadExact(s, pos, 4)
                    IN [ok |-> r.ok,
                        val |-> IF r.ok
                                THEN U32(r.val[1] - 128, r.val[2], r.val[3], r.val[4])
                                ELSE 0,
                        pos |-> r.pos]
               ELSE LET r == ReadExact(s, pos, 2)
                    IN [ok |-> r.ok, val |-> IF r.ok THEN U16(r.val[1], r.val[2]) ELSE 0,
                        pos |-> r.pos]

\* the width of ids and counts: vari32 from version 7, u16 before
IdKind(version) == IF version >= 7 THEN "vari32" ELSE "u16"

MaxI32 == 2147483647

\* i32 addition: the sum, wrapped to 32 bits, and whether it overflowed
AddOverflows(a, b) == (a > 0 /\ b > MaxI32 - a) \/ (a < 0 /\ b < (-MaxI32 - 1) - a)
AddI32(a, b) ==
    IF a > 0 /\ b > MaxI32 - a THEN ((a - MaxI32) - 1) + ((b - MaxI32) - 1)
    ELSE IF a < 0 /\ b < (-MaxI32 - 1) - a THEN ((a + MaxI32) + 1) + ((b + MaxI32) + 1)
    ELSE a + b

ReferenceTableFolder_new(id) ==
    [id |-> id, name_hash |-> 0, crc32 |-> 0, whirlpool |-> <<>>, version |-> 0,
     files |-> <<>>, file_count |-> 0]

ReferenceTableFile_default == [id |-> 0, name_hash |-> 0]

\* Vec::with_capacity(n): room for n elements, and none in it
Vec_with_capacity(n) == <<>>

EmptyMap == [k \in {} |-> 0]
\* HashMap::insert: a value already stored under the key is replaced
HashMap_insert(m, k, v) == [x \in DOMAIN m \cup {k} |-> IF x = k THEN v ELSE m[x]]

----------------------------------------------------------------------------
(* ReferenceTable::decode, column by column.  The decoder's state st is     *)
(* [status, pos, entries, files]: status "run" while decoding, "err" after  *)
(* a failed read, "panic" after an arithmetic overflow in a checked build.  *)

FolderIdReset(id, delta) == delta

\* id += delta
NextFolderId(id, delta) == AddI32(id, delta)

RECURSIVE FolderIdsLoop(_, _, _, _, _, _)
FolderIdsLoop(st, s, version, n, id, overflow_checks) ==
    IF n = 0 \/ st.status # "run" THEN st
    ELSE LET r == ReadVal(s, st.pos, IdKind(version))
         IN IF ~r.ok THEN [st EXCEPT !.status = "err", !.pos = r.pos]
            ELSE IF overflow_checks /\ AddOverflows(id, r.val)
            THEN [st EXCEPT !.status = "panic", !.pos = r.pos]
            ELSE LET id2 == NextFolderId(id, r.val)
                 IN FolderIdsLoop([st EXCEPT !.pos = r.pos,
                                      !.entries = Append(@, ReferenceTableFolder_new(id2))],
                                  s, version, n - 1, id2, overflow_checks)

\* for i in 0..entry_count { entries[i].<field> = read()? }
RECURSIVE ColumnLoop(_, _, _, _, _)
ColumnLoop(st, s, i, field, kind) ==
    IF i > Len(st.entries) \/ st.status # "run" THEN st
    ELSE LET r == ReadVal(s, st.pos, kind)
         IN IF ~r.ok THEN [st EXCEPT !.status = "err", !.pos = r.pos]
            ELSE ColumnLoop([st EXCEPT !.pos = r.pos,
                                !.entries[i] = [@ EXCEPT ![field] = r.val]],
                            s, i + 1, field, kind)

\* n values of 4 bytes read and dropped
RECURSIVE DiscardLoop(_, _, _)
DiscardLoop(st, s, n) ==
    IF n = 0 \/ st.status # "run" THEN st
    ELSE LET r == ReadVal(s, st.pos, "i32")
         IN IF ~r.ok THEN [st EXCEPT !.status = "err", !.pos = r.pos]
            ELSE DiscardLoop([st EXCEPT !.pos = r.pos], s, n - 1)

\* r.read_exact(entries[i].whirlpool.as_mut_slice()): fills the slice the
\* vector has, which is as long as the vector
RECURSIVE WhirlpoolLoop(_, _, _)
WhirlpoolLoop(st, s, i) ==
    IF i > Len(st.entries) \/ st.status # "run" THEN st
    ELSE LET r == ReadExact(s, st.pos, Len(st.entries[i].whirlpool))
         IN IF ~r.ok THEN [st EXCEPT !.status = "err", !.pos = r.pos]
            ELSE WhirlpoolLoop([st EXCEPT !.pos = r.pos, !.entries[i].whirlpool = r.val],
                               s, i + 1)

RECURSIVE FileCountsLoop(_, _, _, _)
FileCountsLoop(st, s, version, n) ==
    IF n = 0 \/ st.status # "run" THEN st
    ELSE LET r == ReadVal(s, st.pos, IdKind(version))
         IN IF ~r.ok THEN [st EXCEPT !.status = "err", !.pos = r.pos]
            ELSE FileCountsLoop([st EXCEPT !.pos = r.pos,
                                    !.files = Append(@, Vec_with_capacity(r.val))],
                                s, version, n - 1)

\* for _ in 0..files[i].len(): the loop runs todo more times; the files it
\* makes are pushed onto files[i]
RECURSIVE FileIdsOfFolder(_, _, _, _, _, _, _)
FileIdsOfFolder(st, s, version, i, todo, file_id, overflow_checks) ==
    IF todo = 0 \/ st.status # "run" THEN st
    ELSE LET r == ReadVal(s, st.pos, IdKind(version))
         IN IF ~r.ok THEN [st EXCEPT !.status = "err", !.pos = r.pos]
            ELSE IF overflow_checks /\ AddOverflows(file_id, r.val)
            THEN [st EXCEPT !.status = "panic", !.pos = r.pos]
            ELSE LET id2 == AddI32(file_id, r.val)
                     file == [ReferenceTableFile_default EXCEPT !.id = id2]
                 IN FileIdsOfFolder([st EXCEPT !.pos = r.pos, !.files[i] = Append(@, file)],
                                    s, version, i, todo - 1, id2, overflow_checks)

RECURSIVE FileIdsLoop(_, _, _, _, _)
FileIdsLoop(st, s, version, i, overflow_checks) ==
    IF i > Len(st.entries) \/ st.status # "run" THEN st
    ELSE FileIdsLoop(FileIdsOfFolder(st, s, version, i, Len(st.files[i]), 0, overflow_checks),
                     s, version, i + 1, overflow_checks)

RECURSIVE FileNamesLoop(_, _, _, _)
FileNamesLoop(st, s, i, file) ==
    IF i > Len(st.entries) \/ st.status # "run" THEN st
    ELSE IF file > Len(st.files[i]) THEN FileNamesLoop(st, s, i + 1, 1)
    ELSE LET r == ReadVal(s, st.pos, "i32")
         IN IF ~r.ok THEN [st EXCEPT !.status = "err", !.pos = r.pos]
            ELSE FileNamesLoop([st EXCEPT !.pos = r.pos, !.files[i][file].name_hash = r.val],
                               s, i, file + 1)

\* v.files = the lookup map of files[i]
RECURSIVE FilesToMap(_, _, _)
FilesToMap(fs, j, m) ==
    IF j > Len(fs) THEN m ELSE FilesToMap(fs, j + 1, HashMap_insert(m, fs[j].id, fs[j]))

\* table.entries = the lookup map of entries
RECURSIVE EntriesToMap(_, _, _, _)
EntriesToMap(entries, files, i, m) ==
    IF i > Len(entries) THEN m
    ELSE LET v == [entries[i] EXCEPT !.files = FilesToMap(files[i], 1, EmptyMap)]
         IN EntriesToMap(entries, files, i + 1, HashMap_insert(m, v.id, v))

FlagBit(flags, bit) == (flags \div bit) % 2 = 1

\* if flags.has_names { ... name_hash column ... }
OptNames(st, s, has_names) ==
    IF has_names THEN ColumnLoop(st, s, 1, "name_hash", "i32") ELSE st

\* if unknown2 / if unknown1 { for _ in 0..n { read_i32 } }
OptDiscard(st, s, present, n) ==
    IF present THEN DiscardLoop(st, s, n) ELSE st

\* if flags.has_whirlpool { ... whirlpool column ... }
OptWhirlpool(st, s, has_whirlpool) ==
    IF has_whirlpool THEN WhirlpoolLoop(st, s, 1) ELSE st

\* if flags.has_names { ... file name_hash column ... }
OptFileNames(st, s, has_names) ==
    IF has_names THEN FileNamesLoop(st, s, 1, 1) ELSE st

\* the column loops of decode, in source order
DecodeColumns(st, s, version, entry_count, has_names, has_whirlpool, unknown1, unknown2, overflow_checks) ==
    OptFileNames(
      FileIdsLoop(
        FileCountsLoop(
          ColumnLoop(
            OptDiscard(
              OptWhirlpool(
                OptDiscard(
                  ColumnLoop(
                    OptNames(
                      FolderIdsLoop(st, s, version, entry_count, 0, overflow_checks),
                      s, has_names),
                    s, 1, "crc32", "i32"),
                  s, unknown2, entry_count),
                s, has_whirlpool),
              s, unknown1, 2 * entry_count),
            s, 1, "version", "u32"),
          s, version, entry_count),
        s, version, 1, overflow_checks),
      s, has_names)

\* Ok(ReferenceTable { version, revision, flags, entries }), or the first
\* failure of the column loops
DecodeResult(st, version, revision, has_names, has_whirlpool) ==
    IF st.status = "err" THEN [ret |-> Err("UnexpectedEof"), pos |-> st.pos]
    ELSE IF st.status = "panic"
    THEN [ret |-> Panic("attempt to add with overflow"), pos |-> st.pos]
    ELSE [ret |-> Ok([version |-> version, revision |-> revision,
                      flags |-> [has_names |-> has_names,
                                 has_whirlpool |-> has_whirlpool],
                      entries |-> EntriesToMap(st.entries, st.files, 1, EmptyMap)]),
          pos |-> st.pos]

\* the part of decode after the entry count has been read
DecodeEntries(s, version, revision, flags, entry_count, pos, overflow_checks) ==
    DecodeResult(
      DecodeColumns([status |-> "run", pos |-> pos, entries |-> <<>>, files |-> <<>>],
                    s, version, entry_count,
                    FlagBit(flags, 1), FlagBit(flags, 2), FlagBit(flags, 4),
                    FlagBit(flags, 8), overflow_checks),
      version, revision, FlagBit(flags, 1), FlagBit(flags, 2))

\* the part of decode after the flags byte has been read
DecodeCount(s, version, revision, fl, overflow_checks) ==
    IF ~fl.ok THEN [ret |-> Err("UnexpectedEof"), pos |-> fl.pos]
    ELSE LET cnt == ReadVal(s, fl.pos, IdKind(version))
         IN IF ~cnt.ok THEN [ret |-> Err("UnexpectedEof"), pos |-> cnt.pos]
            ELSE DecodeEntries(s, version, revision, fl.val, cnt.val, cnt.pos,
                               overflow_checks)

\* the part of decode after the revision has been read (or skipped)
DecodeFlags(s, version, rev, overflow_checks) ==
    IF ~rev.ok THEN [ret |-> Err("UnexpectedEof"), pos |-> rev.pos]
    ELSE DecodeCount(s, version, rev.val, ReadVal(s, rev.pos, "u8"), overflow_checks)

\* the part of decode after the version byte has been read
DecodeVersion(s, v, overflow_checks) ==
    IF ~v.ok THEN [ret |-> Err("UnexpectedEof"), pos |-> v.pos]
    ELSE IF ~(v.val >= 5 /\ v.val <= 7)
    THEN [ret |-> Err("InvalidData"), pos |-> v.pos]
    ELSE DecodeFlags(s, v.val,
                     IF v.val >= 6 THEN ReadVal(s, v.pos, "u32")
                     ELSE [ok |-> TRUE, val |-> 0, pos |-> v.pos],
                     overflow_checks)

ReferenceTable_decode(s, overflow_checks) ==
    DecodeVersion(s, ReadVal(s, 0, "u8"), overflow_checks)

\* for (_, v) in &self.entries { if v.id > last_id { last_id = v.id } }
RECURSIVE LastIdLoop(_, _, _)
LastIdLoop(entries, keys, last_id) ==
    IF keys = {} THEN last_id
    ELSE LET k == CHOOSE x \in keys : TRUE
             v == entries[k]
         IN LastIdLoop(entries, keys \ {k}, IF v.id > last_id THEN v.id ELSE last_id)

ReferenceTable_last_id(t) == LastIdLoop(t.entries, DOMAIN t.entries, 0)

----------------------------------------------------------------------------
(* The files the host supplies.  A data file is MaxBlocks blocks, each a   *)
(* header written in the small or the large form followed by a payload     *)
(* whose first 9 bytes are an entry header and whose other bytes depend    *)
(* on the block and the offset, so that two blocks never look alike.       *)

Blocks == 0..(MaxBlocks - 1)

HeaderBytes(big, entry_id, next_seq, next_block, index_id) ==
    IF big
    THEN <<0, entry_id \div 65536, (entry_id \div 256) % 256, entry_id % 256,
           next_seq \div 256, next_seq % 256,
           next_block \div 65536, (next_block \div 256) % 256, next_block % 256,
           index_id>>
    ELSE <<entry_id \div 256, entry_id % 256,
           next_seq \div 256, next_seq % 256,
           next_block \div 65536, (next_block \div 256) % 256, next_block % 256,
           index_id>>

PayloadByte(b, o, eh) == IF o < 9 THEN eh[o + 1] ELSE 1 + ((b * 37 + o) % 255)

\* next_seq, next_block, index_id are functions of the block number.
MkFile(big, entry_id, seqf, nextf, idxf, eh) ==
    [i \in 1..(BlockSize * MaxBlocks) |->
        LET b == (i - 1) \div BlockSize
            o == (i - 1) % BlockSize
            hdr == HeaderBytes(big, entry_id, seqf[b], nextf[b], idxf[b])
        IN IF o < Len(hdr) THEN hdr[o + 1] ELSE PayloadByte(b, o - Len(hdr), eh)]

Succ == [b \in Blocks |-> (b + 1) % MaxBlocks]
Pred == [b \in Blocks |-> (b + MaxBlocks - 1) % MaxBlocks]
\* position of block b on the chain that starts at block 0
SeqAlong(nextf) == [b \in Blocks |-> IF nextf = Succ THEN b ELSE (MaxBlocks - b) % MaxBlocks]

PlainHeader == <<0, 0, 0, 0, 10, 0, 0, 0, 0>>

\* the entry ids used: one of the small block form, one of the large form
EntryIds == <<5, 65536>>
SmallId == EntryIds[1]
BigId == EntryIds[2]

ChainFiles ==
    { MkFile(FALSE, SmallId, seqf, nextf, [b \in Blocks |-> 0], PlainHeader) :
        seqf \in [Blocks -> {0, 1}], nextf \in {Succ, Pred} }

BigFiles ==
    { MkFile(TRUE, BigId, [b \in Blocks |-> IF b = pb THEN 7 ELSE SeqAlong(nextf)[b]], nextf,
             [b \in Blocks |-> 0], PlainHeader) :
        pb \in {0, MaxBlocks}, nextf \in {Succ, Pred} }

\* entry headers: codec tag, raw_size, real_size
EntryHeaders ==
    { <<c>> \o raw \o <<0, 0, 0, 50>> :
        c \in {0, 1, 2, 3}, raw \in {<<0, 0, 0, 0>>, <<0, 0, 0, 200>>} }
    \cup { <<9, 0, 0, 0, 10, 0, 0, 0, 0>>, <<0, 255, 255, 255, 255, 0, 0, 0, 0>>,
            <<1, 0, 0, 0, 10, 0, 0, 0, 0>>, <<2, 0, 0, 0, 10, 0, 0, 0, 0>> }

HeaderFiles ==
    { MkFile(FALSE, SmallId, SeqAlong(Succ), Succ, [b \in Blocks |-> 0], eh) : eh \in EntryHeaders }

IntactFile == MkFile(FALSE, SmallId, SeqAlong(Succ), Succ, [b \in Blocks |-> 0], PlainHeader)

\* data files that end inside a block, or before the block an entry needs
ShortLens == {0, 100, BlockSize, BlockSize + 100}
ShortFiles == { SubSeq(IntactFile, 1, n) : n \in ShortLens }

MainFiles ==
    { [exists |-> TRUE, bytes |-> f] : f \in ChainFiles \cup BigFiles \cup HeaderFiles \cup ShortFiles }
    \cup { [exists |-> FALSE, bytes |-> <<>>] }

\* Index files: a whole number of records, or that and a few bytes more.
\* (520 * first_block stays within TLC's integers up to first_block = 0x3EFFFF)
Records == { <<0, 0, 0, 0, 0, 0>>, <<1, 2, 3, 4, 5, 6>>, <<255, 255, 255, 62, 255, 255>> }

RECURSIVE Flatten(_)
Flatten(ss) == IF ss = <<>> THEN <<>> ELSE Head(ss) \o Flatten(Tail(ss))

RecordLists == UNION { [1..n -> Records] : n \in 0..MaxRecords }

IndexFiles ==
    { [id |-> i, bytes |-> Flatten(rs) \o SubSeq(<<9, 9, 9, 9, 9>>, 1, extra)] :
        rs \in RecordLists, extra \in {0, 1, 5}, i \in {0, 2, 257} }

DefaultIndex == [id |-> 0, bytes |-> <<0, 0, 100, 0, 0, 0, 0, 4, 1, 0, 0, 1>>]
DefaultMain == [exists |-> TRUE, bytes |-> IntactFile]

\* The index entries read_entry and its callers are given: values of the
\* shape IndexFile::entry builds (size below 2^24, offset = 520 * block).
MkEntry(index, id, size, block) ==
    [index |-> index, id |-> id, size |-> size, offset |-> block * 520]

EntrySizes == {0, 4, 100, 1020, 1024, 1025}

EntryInputs ==
    { MkEntry(0, id, size, 0) : id \in {SmallId, BigId}, size \in EntrySizes }
    \cup { MkEntry(0, id, size, MaxBlocks - 1) : id \in {SmallId, BigId}, size \in {100, 1024} }
    \cup { MkEntry(1, id, 1025, 0) : id \in {SmallId, BigId} }

HeaderInputs ==
    { MkEntry(0, id, size, 0) : id \in {SmallId, BigId}, size \in {0, 4, 100} }
    \cup { MkEntry(0, SmallId, 100, MaxBlocks - 1) }

LookupIds == 0..(MaxRecords + 1)

----------------------------------------------------------------------------
(* The reference tables the host serialises: the column-major layout, with *)
(* ids and counts as u16 before version 7 and as vari32 from it.            *)

EncU16(v) == <<v \div 256, v % 256>>
EncI32(v) == <<v \div 16777216, (v \div 65536) % 256, (v \div 256) % 256, v % 256>>
EncVari32(v) ==
    IF v < 32768 THEN EncU16(v)
    ELSE <<128 + v \div 16777216, (v \div 65536) % 256, (v \div 256) % 256, v % 256>>
EncId(version, v) == IF version >= 7 THEN EncVari32(v) ELSE EncU16(v)

Encode(src) ==
    LET N == Len(src.folders)
        F == src.folders
        ver == src.version
        ids == Flatten([i \in 1..N |-> EncId(ver, F[i].delta)])
        names == Flatten([i \in 1..N |-> EncI32(F[i].name_hash)])
        crcs == Flatten([i \in 1..N |-> EncI32(F[i].crc32)])
        hashgroup == Flatten([i \in 1..N |-> <<0, 0, 0, 7>>])
        whirls == Flatten([i \in 1..N |-> F[i].whirlpool])
        digestgroup == Flatten([i \in 1..N |-> <<0, 0, 0, 8, 0, 0, 0, 9>>])
        versions == Flatten([i \in 1..N |-> EncI32(F[i].version)])
        counts == Flatten([i \in 1..N |-> EncId(ver, Len(F[i].files))])
        fileids == Flatten([i \in 1..N |->
                      Flatten([j \in 1..Len(F[i].files) |-> EncId(ver, F[i].files[j].delta)])])
        filenames == Flatten([i \in 1..N |->
                      Flatten([j \in 1..Len(F[i].files) |-> EncI32(F[i].files[j].name_hash)])])
    IN <<ver>>
       \o (IF ver >= 6 THEN EncI32(src.revision) ELSE <<>>)
       \o <<src.flags>>
       \o EncId(ver, N)
       \o ids
       \o (IF FlagBit(src.flags, 1) THEN names ELSE <<>>)
       \o crcs
       \o (IF FlagBit(src.flags, 8) THEN hashgroup ELSE <<>>)
       \o (IF FlagBit(src.flags, 2) THEN whirls ELSE <<>>)
       \o (IF FlagBit(src.flags, 4) THEN digestgroup ELSE <<>>)
       \o versions
       \o counts
       \o fileids
       \o (IF FlagBit(src.flags, 1) THEN filenames ELSE <<>>)

\* a table of the given version and flags, folder-id deltas fd and, for
\* folder i, file-id deltas files[i]
MkSource(ver, flags, fd, files) ==
    [version |-> ver, revision |-> 256, flags |-> flags,
     folders |-> [i \in 1..Len(fd) |->
        [delta |-> fd[i], name_hash |-> 1000 + i, crc32 |-> 2000 + i,
         whirlpool |-> [k \in 1..64 |-> 100 + i], version |-> 3000 + i,
         files |-> [j \in 1..Len(files[i]) |->
                      [delta |-> files[i][j], name_hash |-> 4000 + 10 * i + j]]]]]

NoSource == MkSource(0, 0, <<>>, <<>>)

VersionFlags == {<<5, 0>>, <<5, 2>>, <<6, 1>>, <<6, 8>>, <<7, 0>>, <<7, 3>>, <<7, 4>>}
FolderDeltaLists == UNION { [1..n -> {0, 1, 3}] : n \in 0..MaxFolders }
FileLists == {<<>>, <<1, 0>>} \cup { [j \in 1..n |-> 1] : n \in 1..MaxFiles }

Sources ==
    { MkSource(vf[1], vf[2], fd, [i \in 1..Len(fd) |-> IF i = 1 THEN first ELSE rest]) :
        vf \in VersionFlags, fd \in FolderDeltaLists, first \in FileLists, rest \in FileLists }
    \cup { MkSource(7, 0, fd, [i \in 1..Len(fd) |-> <<>>]) :
             fd \in {<<MaxI32>>, <<MaxI32, 1>>, <<1, MaxI32>>, <<40000, 40000>>} }
    \cup { MkSource(ver, 0, <<1>>, <<<<>>>>) : ver \in {4, 8} }

\* a stream cut short
CutSource == MkSource(6, 1, <<1, 3>>, <<<<1, 1>>, <<>>>>)
CutStreams == { SubSeq(Encode(CutSource), 1, n) : n \in 0..(Len(Encode(CutSource)) - 1) }

\* no read_entry is inside its loop
NoLoop == [pc |-> "idle", current_block |-> 0, remaining |-> 0, current_seq |-> 0, data |-> <<>>]

----------------------------------------------------------------------------
(* The state machine of the block store: calls on the data file *)

Init ==
    /\ mainfile \in MainFiles
    /\ indexfile = DefaultIndex
    /\ mpos = 0
    /\ ipos = 0
    /\ call = [op |-> "new"]
    /\ ret = [kind |-> "unit"]
    /\ reads = <<>>
    /\ loop = NoLoop
    /\ stream = <<>> /\ source = NoSource /\ spos = 0 /\ table = None

\* MainFile::read_block
ReadBlock(block) ==
    LET r == MainFile_read_block(MainFile_at(mainfile, mpos), block)
    IN /\ call' = [op |-> "read_block", block |-> block]
       /\ ret' = r.ret
       /\ mpos' = IF r.moved THEN r.pos ELSE mpos
       /\ reads' = IF r.moved THEN <<block>> ELSE <<>>
       /\ UNCHANGED <<mainfile, indexfile, ipos>>
       /\ UNCHANGED <<loop, rtvars>>

\* MainFile::read_header
ReadHeader(e) ==
    LET r == MainFile_read_header(MainFile_at(mainfile, mpos), e)
    IN /\ call' = [op |-> "read_header", entry |-> e]
       /\ ret' = r.ret
       /\ mpos' = IF r.moved THEN r.pos ELSE mpos
       /\ reads' = <<>>
       /\ UNCHANGED <<mainfile, indexfile, ipos>>
       /\ UNCHANGED <<loop, rtvars>>

\* MainFile::read_entry
ReadEntry(e) ==
    LET r == MainFile_read_entry(MainFile_at(mainfile, mpos), e, mpos)
    IN /\ call' = [op |-> "read_entry", entry |-> e]
       /\ ret' = r.ret
       /\ mpos' = r.pos
       /\ reads' = r.reads
       /\ UNCHANGED <<mainfile, indexfile, ipos>>
       /\ UNCHANGED <<loop, rtvars>>

\* MainFile::read_decompressed
ReadDecompressed(e, decoder_ok) ==
    LET r == MainFile_read_decompressed(MainFile_at(mainfile, mpos), e, mpos, decoder_ok)
    IN /\ call' = [op |-> "read_decompressed", entry |-> e, decoder_ok |-> decoder_ok]
       /\ ret' = r.ret
       /\ mpos' = r.pos
       /\ reads' = r.reads
       /\ UNCHANGED <<mainfile, indexfile, ipos>>
       /\ UNCHANGED <<loop, rtvars>>

Next ==
    \/ \E b \in {0, MaxBlocks - 1, MaxBlocks} : ReadBlock(b)
    \/ \E e \in HeaderInputs : ReadHeader(e)
    \/ \E e \in EntryInputs : ReadEntry(e)
    \/ \E e \in HeaderInputs, decoder_ok \in BOOLEAN : ReadDecompressed(e, decoder_ok)

Spec == Init /\ [][Next]_vars

----------------------------------------------------------------------------
(* The state machine of the index reader: calls on an index file *)

InitIndex ==
    /\ mainfile = DefaultMain
    /\ indexfile \in IndexFiles
    /\ mpos = 0
    /\ ipos = 0
    /\ call = [op |-> "new"]
    /\ ret = [kind |-> "unit"]
    /\ reads = <<>>
    /\ loop = NoLoop
    /\ stream = <<>> /\ source = NoSource /\ spos = 0 /\ table = None

\* IndexFile::last_entry
LastEntry ==
    /\ call' = [op |-> "last_entry"]
    /\ ret' = [kind |-> "count", val |-> IndexFile_last_entry(indexfile)]
    /\ reads' = <<>>
    /\ UNCHANGED <<mainfile, indexfile, mpos, ipos>>
    /\ UNCHANGED <<loop, rtvars>>

\* IndexFile::entry
Entry(id) ==
    LET r == IndexFile_entry(IndexFile_at(indexfile, ipos), id)
    IN /\ call' = [op |-> "entry", id |-> id]
       /\ ret' = r.ret
       /\ ipos' = r.pos
       /\ reads' = <<>>
       /\ UNCHANGED <<mainfile, indexfile, mpos>>
       /\ UNCHANGED <<loop, rtvars>>

NextIndex ==
    \/ LastEntry
    \/ \E id \in LookupIds : Entry(id)

SpecIndex == InitIndex /\ [][NextIndex]_vars

----------------------------------------------------------------------------
(* The state machine of one FileSystem: calls on the data file and on an   *)
(* index file in any order, each starting where the calls before it left   *)
(* the two cursors.                                                        *)

\* a data file whose chain runs 0, MaxBlocks - 1, ..., 1
BackwardFile == MkFile(FALSE, SmallId, SeqAlong(Pred), Pred, [b \in Blocks |-> 0], PlainHeader)

FsMainFiles ==
    { [exists |-> TRUE, bytes |-> f] :
        f \in {IntactFile, BackwardFile, SubSeq(IntactFile, 1, BlockSize + 100)} }
    \cup { [exists |-> FALSE, bytes |-> <<>>] }

FsIndexFiles == { DefaultIndex, [id |-> 2, bytes |-> <<1, 2, 3, 4, 5, 6, 9>>] }

FsEntries ==
    { MkEntry(0, SmallId, size, 0) : size \in {0, 100, 1020} }
    \cup { MkEntry(0, BigId, 100, MaxBlocks - 1) }

InitFS ==
    /\ mainfile \in FsMainFiles
    /\ indexfile \in FsIndexFiles
    /\ mpos = 0
    /\ ipos = 0
    /\ call = [op |-> "new"]
    /\ ret = [kind |-> "unit"]
    /\ reads = <<>>
    /\ loop = NoLoop
    /\ stream = <<>> /\ source = NoSource /\ spos = 0 /\ table = None

NextFS ==
    \/ LastEntry
    \/ \E id \in LookupIds : Entry(id)
    \/ \E b \in {0, MaxBlocks - 1, MaxBlocks} : ReadBlock(b)
    \/ \E e \in FsEntries : ReadHeader(e)
    \/ \E e \in FsEntries : ReadEntry(e)
    \/ \E e \in FsEntries, decoder_ok \in BOOLEAN : ReadDecompressed(e, decoder_ok)

SpecFS == InitFS /\ [][NextFS]_vars

----------------------------------------------------------------------------
(* read_entry one loop iteration at a time.  The locals of the call are    *)
(* in `loop`; `ret` is "running" from the call until its return.           *)

\* a data file whose every block names block 0 as its next block
SelfFile == MkFile(FALSE, SmallId, SeqAlong(Succ), [b \in Blocks |-> 0], [b \in Blocks |-> 0], PlainHeader)

LoopFiles ==
    { [exists |-> TRUE, bytes |-> f] :
        f \in {IntactFile, BackwardFile, SelfFile, SubSeq(IntactFile, 1, BlockSize + 100)}
              \cup BigFiles }
    \cup { [exists |-> FALSE, bytes |-> <<>>] }

\* entries on both sides of the limit between the two block forms
LoopEntries ==
    { MkEntry(0, id, size, block) :
        id \in {SmallLimit, SmallLimit + 1}, size \in EntrySizes, block \in {0, MaxBlocks - 1} }

InitLoop ==
    /\ mainfile \in LoopFiles
    /\ indexfile = DefaultIndex
    /\ mpos = 0
    /\ ipos = 0
    /\ call = [op |-> "new"]
    /\ ret = [kind |-> "unit"]
    /\ reads = <<>>
    /\ loop = NoLoop
    /\ stream = <<>> /\ source = NoSource /\ spos = 0 /\ table = None

\* read_entry up to the first test of the while condition
ReadEntryBegin(e) ==
    /\ loop.pc = "idle"
    /\ call' = [op |-> "read_entry", entry |-> e]
    /\ reads' = <<>>
    /\ IF ~mainfile.exists
       THEN /\ ret' = Err("NoFileHandle")
            /\ loop' = NoLoop
       ELSE /\ ret' = [kind |-> "running"]
            /\ loop' = [pc |-> "while", current_block |-> IndexEntry_block(e),
                        remaining |-> e.size, current_seq |-> 0, data |-> <<>>]
    /\ UNCHANGED <<mainfile, indexfile, mpos, ipos>>
    /\ UNCHANGED rtvars

\* The body of `while remaining > 0` run once on the locals lp, with
\* block_data the block that read_block returned: the locals after it
\* (pc = "idle" when the body returns MalformedDataSequence).
read_entry_body(block_data, e, lp) ==
    LET block_info == BlockHeader_from_block(e.id > 65535, block_data)
        header_size == IF block_info.big THEN 10 ELSE 8
        available_data == 520 - header_size
        consumable == Consumable(lp.remaining, available_data)
        data2 == lp.data \o SubSeq(block_data, header_size + 1, header_size + consumable)
        remaining2 == lp.remaining - consumable
    IN IF remaining2 > 0 /\ LinkageBroken(block_info, e, lp.current_seq)
       THEN [lp EXCEPT !.pc = "idle", !.remaining = remaining2, !.data = data2]
       ELSE [lp EXCEPT !.current_block = NextBlock(lp.current_block, block_info),
                       !.remaining = remaining2,
                       !.current_seq = lp.current_seq + 1,
                       !.data = data2]

\* one iteration of `while remaining > 0`; blk is what read_block returns
ReadEntryIterate ==
    /\ loop.pc = "while"
    /\ loop.remaining > 0
    /\ \E blk \in {MainFile_read_block(MainFile_at(mainfile, mpos), loop.current_block)} :
          /\ mpos' = blk.pos
          /\ loop' = read_entry_body(blk.ret.val, call.entry, loop)
    /\ reads' = Append(reads, loop.current_block)
    /\ ret' = IF loop'.pc = "idle" THEN Err("MalformedDataSequence") ELSE ret
    /\ UNCHANGED <<mainfile, indexfile, ipos, call>>
    /\ UNCHANGED rtvars

\* the while condition is false: Ok(data)
ReadEntryReturn ==
    /\ loop.pc = "while"
    /\ ~(loop.remaining > 0)
    /\ ret' = Ok(loop.data)
    /\ loop' = [loop EXCEPT !.pc = "idle"]
    /\ UNCHANGED <<mainfile, indexfile, mpos, ipos, call, reads>>
    /\ UNCHANGED rtvars

NextLoop ==
    \/ \E e \in LoopEntries : ReadEntryBegin(e)
    \/ ReadEntryIterate
    \/ ReadEntryReturn

\* A call that has started runs on: the thread inside read_entry executes
\* the next iteration, or the return, without waiting for anything.
SpecLoop ==
    InitLoop /\ [][NextLoop]_vars /\ WF_vars(ReadEntryIterate) /\ WF_vars(ReadEntryReturn)

----------------------------------------------------------------------------
(* The state machine of the reference-table decoder *)

InitRT ==
    /\ mainfile = DefaultMain
    /\ indexfile = DefaultIndex
    /\ mpos = 0
    /\ ipos = 0
    /\ call = [op |-> "new"]
    /\ ret = [kind |-> "unit"]
    /\ reads = <<>>
    /\ loop = NoLoop
    /\ \/ source \in Sources /\ stream = Encode(source)
       \/ source = CutSource /\ stream \in CutStreams
    /\ spos = 0
    /\ table = None

\* ReferenceTable::decode on a reader placed at the start of the stream;
\* overflow_checks is the build's choice for integer overflow (panic or wrap)
Decode(overflow_checks) ==
    LET r == ReferenceTable_decode(stream, overflow_checks)
    IN /\ call' = [op |-> "decode", overflow_checks |-> overflow_checks]
       /\ ret' = r.ret
       /\ spos' = r.pos
       /\ table' = IF r.ret.kind = "ok" THEN Some(r.ret.val) ELSE table
       /\ UNCHANGED <<stream, source>>
       /\ UNCHANGED fsvars

\* ReferenceTable::last_id
LastId ==
    /\ table.kind = "some"
    /\ call' = [op |-> "last_id"]
    /\ ret' = [kind |-> "int", val |-> ReferenceTable_last_id(table.val)]
    /\ UNCHANGED rtvars
    /\ UNCHANGED fsvars

NextRT ==
    \/ \E overflow_checks \in BOOLEAN : Decode(overflow_checks)
    \/ LastId

SpecRT == InitRT /\ [][NextRT]_vars

----------------------------------------------------------------------------
(* What the format says about an entry, read off the file itself *)

PayloadPerBlock(e) == BlockSize - BlockHeaderLen(e)
BlocksNeeded(e) == (e.size + PayloadPerBlock(e) - 1) \div PayloadPerBlock(e)
BlockInFile(bytes, b) == (b + 1) * BlockSize <= Len(bytes)
HeaderAt(bytes, e, b) ==
    BlockHeader_from_block(e.id > SmallLimit, ReadAt(bytes, b * BlockSize, BlockSize).buf)

\* the first n blocks of the next_block chain that starts at block b
RECURSIVE ChainFrom(_, _, _, _)
ChainFrom(bytes, e, b, n) ==
    IF n = 0 THEN <<>>
    ELSE <<b>> \o ChainFrom(bytes, e, HeaderAt(bytes, e, b).next_block, n - 1)

Chain(bytes, e) == ChainFrom(bytes, e, IndexEntry_block(e), BlocksNeeded(e))

\* the payload regions along the chain, cut to the entry's size
RECURSIVE ChainPayload(_, _, _, _)
ChainPayload(bytes, e, ch, remaining) ==
    IF ch = <<>> THEN <<>>
    ELSE LET take == Min(remaining, PayloadPerBlock(e))
             blk == ReadAt(bytes, Head(ch) * BlockSize, BlockSize).buf
         IN SubSeq(blk, BlockHeaderLen(e) + 1, BlockHeaderLen(e) + take)
            \o ChainPayload(bytes, e, Tail(ch), remaining - take)

\* the k-th block of the chain (k from 1) carries next_seq = k - 1 and the entry's index
ChainBlockValid(bytes, e, ch, k) ==
    /\ HeaderAt(bytes, e, ch[k]).next_seq = k - 1
    /\ HeaderAt(bytes, e, ch[k]).index_id = e.index

\* the chain lies inside the file and visits no block twice
ChainInFile(bytes, e) ==
    LET ch == Chain(bytes, e)
    IN /\ \A i \in 1..Len(ch) : BlockInFile(bytes, ch[i])
       /\ \A i, j \in 1..Len(ch) : i # j => ch[i] # ch[j]

\* and every block of it but the last carries valid linkage
ChainWellFormed(bytes, e) ==
    /\ ChainInFile(bytes, e)
    /\ \A k \in 1..(Len(Chain(bytes, e)) - 1) : ChainBlockValid(bytes, e, Chain(bytes, e), k)

----------------------------------------------------------------------------
(* Claims about read_entry and read_decompressed, under Spec *)

\* C1: read_entry follows the block chain: after a non-final block, the next
\* block read is the one numbered by that block's next_block field, and the
\* bytes returned are the payload regions along the next_block chain, also
\* when the chained blocks are not consecutive (stated for chains that lie
\* inside the data file, visit no block twice and carry valid linkage).
C1_FollowsChain ==
    (/\ call.op = "read_entry" /\ mainfile.exists
     /\ ChainWellFormed(mainfile.bytes, call.entry)) =>
        /\ \A i \in 1..(Len(reads) - 1) :
              reads[i + 1] = HeaderAt(mainfile.bytes, call.entry, reads[i]).next_block
        /\ ret.kind = "ok" =>
              ret.val = ChainPayload(mainfile.bytes, call.entry,
                                     Chain(mainfile.bytes, call.entry), call.entry.size)

\* C2: whenever read_entry(E) returns successfully, the bytes returned number
\* exactly E.size, and they were taken from ceil(E.size / (520 - header_len))
\* blocks: no trailing partial block when E.size is a multiple of the payload.
C2_LengthIsSize ==
    (call.op = "read_entry" /\ ret.kind = "ok") =>
        /\ Len(ret.val) = call.entry.size
        /\ Len(reads) = BlocksNeeded(call.entry)
        /\ Len(reads) * PayloadPerBlock(call.entry) >= call.entry.size
        /\ (Len(reads) - 1) * PayloadPerBlock(call.entry) < call.entry.size \/ call.entry.size = 0

\* a two-block entry whose size is a multiple of the payload per block was read
C2_Witness ==
    /\ call.op = "read_entry" /\ ret.kind = "ok"
    /\ call.entry.size = 2 * PayloadPerBlock(call.entry)
    /\ Len(reads) = 2
    /\ Len(ret.val) = call.entry.size

\* C3: when one non-final block of an entry's chain carries a wrong next_seq
\* or index_id, and the chain is otherwise valid, read_entry fails with
\* MalformedDataSequence.
C3_PerturbedChainFails ==
    (call.op = "read_entry" /\ mainfile.exists) =>
        LET e == call.entry
            ch == Chain(mainfile.bytes, e)
            n == Len(ch)
        IN (/\ ChainInFile(mainfile.bytes, e)
            /\ \E k \in 1..(n - 1) :
                  /\ ~ChainBlockValid(mainfile.bytes, e, ch, k)
                  /\ \A j \in 1..(n - 1) : j # k => ChainBlockValid(mainfile.bytes, e, ch, j))
           => ret = Err("MalformedDataSequence")

\* C4: if a block read_entry reads lies partly or wholly past the end of the
\* data file, read_entry fails with MalformedDataSequence.
C4_ShortReadFails ==
    (call.op = "read_entry" /\ mainfile.exists) =>
        ((\E i \in 1..Len(reads) : ~BlockInFile(mainfile.bytes, reads[i]))
            => ret = Err("MalformedDataSequence"))

\* C5: with the data file present and a codec tag other than Lzma,
\* read_decompressed returns bytes or a typed FsError; it never panics.
C5_NoPanic ==
    (/\ call.op = "read_decompressed"
     /\ mainfile.exists
     /\ MainFile_read_header(MainFile_at(mainfile, 0), call.entry).ret.val.compression # "Lzma")
    => ret.kind \in {"ok", "err"}

----------------------------------------------------------------------------
(* Claims about the index reader, under SpecIndex *)

\* C6: for an index file of length L, last_entry is floor(L / 6); entry(k) is
\* Some for k < floor(L / 6), with id = k, size = the 24-bit big-endian value
\* of record bytes 0..3 and offset = 520 * that of bytes 3..6; and None for
\* every k >= floor(L / 6).
C6_IndexLookup ==
    LET L == Len(indexfile.bytes)
        b == indexfile.bytes
    IN /\ call.op = "last_entry" => ret.val * 6 <= L /\ L < (ret.val + 1) * 6
       /\ call.op = "entry" =>
             LET k == call.id
             IN IF 6 * k + 6 <= L
                THEN /\ ret.kind = "some"
                     /\ ret.val.id = k
                     /\ ret.val.size = 65536 * b[6 * k + 1] + 256 * b[6 * k + 2] + b[6 * k + 3]
                     /\ ret.val.offset =
                            520 * (65536 * b[6 * k + 4] + 256 * b[6 * k + 5] + b[6 * k + 6])
                ELSE ret = None

\* the second record was looked up in a file that ends inside a record, and
\* the lookup past it found nothing in the same file
C6_Witness ==
    /\ call.op = "entry" /\ call.id = 1
    /\ Len(indexfile.bytes) = 17
    /\ ret.kind = "some" /\ ret.val.size = 66051 /\ ret.val.offset = 520 * 263430
    /\ IndexFile_entry(IndexFile_at(indexfile, 0), 2).ret = None

----------------------------------------------------------------------------
(* What the format says about a table, read off the table serialised *)

\* i32 sum of an id and a delta (a delta is never negative)
WrapSum(a, b) ==
    IF a >= 0 /\ b > MaxI32 - a THEN ((a - MaxI32) - 1) + ((b - MaxI32) - 1) ELSE a + b

\* running sums of a sequence of records with a delta field, from 0
RECURSIVE RunningSums(_, _)
RunningSums(ds, acc) ==
    IF ds = <<>> THEN <<>>
    ELSE LET x == WrapSum(acc, Head(ds).delta) IN <<x>> \o RunningSums(Tail(ds), x)

FolderIds(src) == RunningSums(src.folders, 0)
FileIds(src, i) == RunningSums(src.folders[i].files, 0)
Range(seq) == { seq[i] : i \in 1..Len(seq) }
Distinct(seq) == \A i, j \in 1..Len(seq) : i # j => seq[i] # seq[j]
\* folder i is the only folder of the table with its id
OnlyOne(src, i) == \A j \in 1..Len(src.folders) : j # i => FolderIds(src)[j] # FolderIds(src)[i]
Whole == stream = Encode(source)

----------------------------------------------------------------------------
(* Claims about ReferenceTable::decode, under SpecRT *)

\* C7: in a table decoded successfully, each folder's file map has exactly
\* the keys given by the running sums of that folder's file-id deltas, so a
\* folder with c strictly positive deltas has c files.
C7_FileKeys ==
    (call.op = "decode" /\ ret.kind = "ok" /\ Whole) =>
        \A i \in 1..Len(source.folders) :
            OnlyOne(source, i) =>
                LET id == FolderIds(source)[i]
                IN /\ id \in DOMAIN ret.val.entries
                   /\ DOMAIN ret.val.entries[id].files = Range(FileIds(source, i))

\* C8: with has_whirlpool set, decode takes 64 bytes per folder at the
\* whirlpool column and stores them as the folder's whirlpool, and reads the
\* columns that follow (here the folder versions) after those bytes.
C8_Whirlpool ==
    (call.op = "decode" /\ ret.kind = "ok" /\ Whole /\ FlagBit(source.flags, 2)) =>
        \A i \in 1..Len(source.folders) :
            OnlyOne(source, i) =>
                LET id == FolderIds(source)[i]
                IN /\ id \in DOMAIN ret.val.entries
                   /\ ret.val.entries[id].whirlpool = source.folders[i].whirlpool
                   /\ ret.val.entries[id].version = source.folders[i].version

\* C9: in a table of version 5, 6 or 7 decoded successfully, the keys of the
\* folder map are the running sums of the N folder-id deltas (one accumulator
\* from 0, never reset), each folder's id is its key, and last_id returns the
\* largest id, 0 for an empty table.
C9_FolderIds ==
    /\ (call.op = "decode" /\ ret.kind = "ok") =>
          /\ ret.val.version \in 5..7
          /\ DOMAIN ret.val.entries = Range(FolderIds(source))
          /\ \A k \in DOMAIN ret.val.entries : ret.val.entries[k].id = k
    /\ call.op = "last_id" =>
          /\ DOMAIN table.val.entries = Range(FolderIds(source))
          /\ \A k \in Range(FolderIds(source)) : k <= ret.val
          /\ IF source.folders = <<>> THEN ret.val = 0
             ELSE ret.val \in Range(FolderIds(source))

\* last_id was asked of a table whose folders are 1 and 4 (deltas 1 and 3)
C9_Witness ==
    /\ call.op = "last_id"
    /\ Len(source.folders) = 2
    /\ source.folders[1].delta = 1 /\ source.folders[2].delta = 3
    /\ DOMAIN table.val.entries = {1, 4}
    /\ ret.val = 4

\* C10: decode fails with an error whenever two folders decode to the same
\* id or two files of one folder decode to the same id.
C10_DuplicatesFail ==
    (/\ call.op = "decode" /\ Whole
     /\ source.version \in 5..7
     /\ \/ ~Distinct(FolderIds(source))
        \/ \E i \in 1..Len(source.folders) : ~Distinct(FileIds(source, i)))
    => ret.kind = "err"

----------------------------------------------------------------------------
(* Calls in sequence on one FileSystem *)

\* What call c returns, and the blocks it reads, on handles that no call
\* has used yet (both cursors at 0) over the files as they are now.
FreshCall(c) ==
    CASE c.op = "last_entry" ->
            [ret |-> [kind |-> "count", val |-> IndexFile_last_entry(indexfile)],
             reads |-> <<>>]
      [] c.op = "entry" ->
            [ret |-> IndexFile_entry(IndexFile_at(indexfile, 0), c.id).ret, reads |-> <<>>]
      [] c.op = "read_block" ->
            [ret |-> MainFile_read_block(MainFile_at(mainfile, 0), c.block).ret,
             reads |-> IF mainfile.exists THEN <<c.block>> ELSE <<>>]
      [] c.op = "read_header" ->
            [ret |-> MainFile_read_header(MainFile_at(mainfile, 0), c.entry).ret,
             reads |-> <<>>]
      [] c.op = "read_entry" ->
            LET r == MainFile_read_entry(MainFile_at(mainfile, 0), c.entry, 0)
            IN [ret |-> r.ret, reads |-> r.reads]
      [] c.op = "read_decompressed" ->
            LET r == MainFile_read_decompressed(MainFile_at(mainfile, 0), c.entry, 0,
                                                c.decoder_ok)
            IN [ret |-> r.ret, reads |-> r.reads]

\* C11: in any sequence of calls to IndexFile::entry, read_block, read_header,
\* read_entry and read_decompressed on one FileSystem, every call leaves the
\* data file and the index file as they were, and returns what the same call
\* returns on fresh handles over those files, after reading the same blocks:
\* neither the calls made before it nor the cursors they left behind, nor
\* anything kept from them, has a part in its result.
C11_OwnCursor ==
    [][ /\ mainfile' = mainfile
        /\ indexfile' = indexfile
        /\ ret' = FreshCall(call').ret
        /\ reads' = FreshCall(call').reads ]_vars

\* read_decompressed has returned data after read_entry left the cursor of
\* the data file behind the entry's second block and read_header went back
\* to the entry header, on a FileSystem whose index file was read before.
C11_Witness ==
    /\ call.op = "read_decompressed"
    /\ ret.kind = "ok"
    /\ Len(reads) >= 2
    /\ mpos = call.entry.offset + BlockHeaderLen(call.entry) + 9
    /\ ipos > 0

----------------------------------------------------------------------------
(* Termination of read_entry *)

\* the call returns what the loop taken as a whole returns
LoopAgrees ==
    (call.op = "read_entry" /\ ret.kind \in {"ok", "err"})
    => ret = MainFile_read_entry(MainFile_at(mainfile, 0), call.entry, 0).ret

\* the number of blocks a read_entry has read so far is within what its size takes
ReadsWithinSize ==
    call.op = "read_entry" =>
        /\ loop.remaining >= 0
        /\ Len(reads) <= BlocksNeeded(call.entry)
        /\ (ret.kind = "ok" => Len(reads) = BlocksNeeded(call.entry))
        /\ (call.entry.size = 0 => Len(reads) = 0)
        /\ BlockHeaderLen(call.entry) = (IF call.entry.id <= SmallLimit THEN 8 ELSE 10)

\* C12: read_entry terminates for every index entry and every data file,
\* chains whose next_block fields form a cycle or point back included: every
\* call that enters the loop returns, every loop iteration leaves `remaining`
\* smaller than it found it, and the call reads at most
\* ceil(size / (520 - header_len)) blocks, exactly that many when it returns
\* Ok and none when size = 0, with header_len 8 for entry ids up to 0xFFFF
\* and 10 from 0x10000.
C12_Terminates ==
    /\ []ReadsWithinSize
    /\ [][(loop.pc = "while" /\ loop.remaining > 0) => loop'.remaining < loop.remaining]_vars
    /\ (loop.pc = "while") ~> (loop.pc = "idle" /\ ret.kind \in {"ok", "err"})

\* read_entry of a three-block entry has returned Ok, after as many iterations,
\* on a data file whose blocks all name block 0 as the next block (a cycle).
C12_Witness ==
    /\ call.op = "read_entry"
    /\ loop.pc = "idle"
    /\ ret.kind = "ok"
    /\ Len(reads) = 3
    /\ Len(ret.val) = call.entry.size
    /\ mainfile.exists
    /\ \A b \in Blocks : HeaderAt(mainfile.bytes, call.entry, b).next_block = 0

====
